---------------------------- MODULE Spec2Model ----------------------------
(***************************************************************************)
(* A model of nengo_bio: the connection weight builder and its cache       *)
(* (builder/connection.py), the evaluation points of nested populations,   *)
(* the LIF gain/bias helpers (neurons.py) and the two-compartment LIF      *)
(* integrators (tests/test_neurons.py).                                    *)
(*                                                                         *)
(* Arrays are modelled by their shape and, where a claim needs it, their   *)
(* content.  Python exceptions are modelled as values: an operation yields *)
(* a record whose err field names the exception class ("none" when the     *)
(* operation returns).                                                     *)
(***************************************************************************)
EXTENDS Integers, Sequences, FiniteSets, TLC

VARIABLES
    conn,        \* the nengo_bio.Connection being built (its configuration)
    heap,        \* the BuiltConnection objects allocated so far, by identity
    params,      \* model.params[conn]: 0 when absent, else an index of heap
    solverCalls, \* how often the external solver was invoked for conn
    solverRet,   \* what the solver returned the last time it returned
    firstReq,    \* the request that put conn into model.params (0: none yet)
    resp,        \* the outcome of the last finished build_solver call
    thr,         \* concurrent callers of build_solver: position and locals
    epTree,      \* the MultiEnsemble handed to get_multi_ensemble_eval_points
    epN,         \* its n_eval_points argument (-1: None)
    epRes,       \* what the call returned or raised
    lifNrn,      \* the parameters of a LIF neuron type instance
    lifCall,     \* the last call of one of its gain/bias helpers
    lifRes,      \* what that call returned or raised
    simCfg,      \* do_test_neuron: the neuron type, dt, whether C++ is usable
    simRef,      \* state of the ReferenceTwoCompLIFSimulator
    simPy,       \* state of the simulator compiled with force_python_sim
    simCpp,      \* state of the simulator compiled without it
    simOut,      \* the out array after the last step: one entry per simulator
    refCfg,      \* a ReferenceTwoCompLIFSimulator run alone: its nrn and dt
    refSim,      \* its state (v_som, v_den, tref) and the out of its last call
    refTrace,    \* the passes of the substep loop made by its last call
    refSince,    \* substeps made since the last spike onset (capped)
    mdlConns,    \* a model with several connections: conn, post_obj, decode_bias
    mdlParams,   \* model.params of that model: per connection, absent or built
    operators,   \* model.operators
    mdlLog       \* what the last build_solver call on that model did

connVars == <<conn, heap, params, solverCalls, solverRet, firstReq, resp, thr>>

evalVars == <<epTree, epN, epRes>>

lifVars == <<lifNrn, lifCall, lifRes>>

simVars == <<simCfg, simRef, simPy, simCpp, simOut>>

refVars == <<refCfg, refSim, refTrace, refSince>>

mdlVars == <<mdlConns, mdlParams, operators, mdlLog>>

nonConnVars == <<evalVars, lifVars, simVars, refVars, mdlVars>>

vars == <<connVars, evalVars, lifVars, simVars, refVars, mdlVars>>

(***************************************************************************)
(* Bounds of the model.                                                    *)
(***************************************************************************)
MaxPre == 2       \* pre entries per connection
NumThreads == 2   \* concurrent callers of build_solver
NumEns == 3       \* base ensembles a connection may draw its pre entries from
MaxPts == 2       \* evaluation points per ensemble
NPost == 1        \* neurons of the post population
MaxW == 1         \* largest weight magnitude the solver returns
MaxSeed == 1      \* distinct solver solutions per shape and sign
MaxLeaves == 3    \* base ensembles in one MultiEnsemble tree
MaxN == 2         \* largest n_eval_points asked for
MaxTau == 2       \* largest tau_ref and tau_spike, in milliseconds
MaxArr == 2       \* longest array handed to gain_bias and max_rates_intercepts
MaxConns == 2     \* connections of one model
Subsample == 2    \* substeps per simulation step

(***************************************************************************)
(* Ensembles: the built parameters build_solver reads for a pre entry.     *)
(***************************************************************************)
Ens == 1..NumEns

\* pre_.size_out: the dimensions of the ensemble
EnsDims(e) == 1 + (e % 2)

\* pre_.neurons.size_out: the neurons of the ensemble
EnsNeurons(e) == e

\* model.params[pre_].eval_points.shape[0]
EnsPts(e) == 1 + (e % MaxPts)

Synapses == {"Excitatory", "Inhibitory"}

\* numpy arrays as shapes
Shape(r, c) == [rows |-> r, cols |-> c]

\* weights[...] is None until line 199/200 stores a matrix
NoneW == [none |-> TRUE, m |-> <<>>]

SomeW(M) == [none |-> FALSE, m |-> M]

\* BuiltConnection.__init__
BuiltConnection ==
    [weights |-> [Excitatory |-> NoneW, Inhibitory |-> NoneW],
     pre_idx_dim_map |-> <<>>,
     pre_idx_neurons_map |-> <<>>]

(***************************************************************************)
(* Lines 122-154: the loop over conn.pre.                                  *)
(***************************************************************************)
RECURSIVE SumDims(_, _)
SumDims(pre, k) == IF k = 0 THEN 0 ELSE SumDims(pre, k - 1) + EnsDims(pre[k])

RECURSIVE SumNeurons(_, _)
SumNeurons(pre, k) ==
    IF k = 0 THEN 0 ELSE SumNeurons(pre, k - 1) + EnsNeurons(pre[k])

\* d0, d1, n0, n1 = d1, d1 + pre_.size_out, n1, n1 + pre_.neurons.size_out
PreIdxDimMap(c) ==
    [i \in 1..Len(c.pre) |-> <<SumDims(c.pre, i - 1), SumDims(c.pre, i)>>]

PreIdxNeuronsMap(c) ==
    [i \in 1..Len(c.pre) |-> <<SumNeurons(c.pre, i - 1), SumNeurons(c.pre, i)>>]

\* eval_points of pre entry i: the ensemble's own points when conn.eval_points
\* is None (modelled as 0), else the columns d0:d1 of conn.eval_points
EvalPointsList(c) ==
    [i \in 1..Len(c.pre) |->
        IF c.eval_points = 0
        THEN Shape(EnsPts(c.pre[i]), EnsDims(c.pre[i]))
        ELSE Shape(c.eval_points, EnsDims(c.pre[i]))]

\* get_activities: one row per evaluation point, one column per neuron
ActivitiesList(c) ==
    [i \in 1..Len(c.pre) |->
        Shape(EvalPointsList(c)[i].rows, EnsNeurons(c.pre[i]))]

(***************************************************************************)
(* Line 157: len(set(map(lambda x: x.shape[0], eval_points))) > 1.         *)
(* eval_points is the loop variable, the array of the last pre entry:      *)
(* iterating it yields its rows, and x.shape[0] is the length of a row.    *)
(***************************************************************************)
RowLengths(a) == {a.cols : r \in 1..a.rows}

CountCheckRaises(c) ==
    Cardinality(RowLengths(EvalPointsList(c)[Len(c.pre)])) > 1

\* np.concatenate(..., axis=1) raises ValueError unless the row counts agree
ConcatAxis1Raises(list) ==
    \E i, j \in 1..Len(list) : list[i].rows # list[j].rows

(***************************************************************************)
(* The external solver: what a call may do.  A solution is a pair of       *)
(* matrices with one row per pre neuron and one column per post neuron;    *)
(* lo = 0 yields entries in 0..MaxW (the solver's contract), lo = -1       *)
(* yields a solver that breaks its contract.                               *)
(***************************************************************************)
SolverBehaviours ==
    [raises : {TRUE}, seed : {0}, lo : {0}] \cup
    [raises : {FALSE}, seed : 0..MaxSeed, lo : {0, -1}]

SolverWE(sol, n) ==
    [i \in 1..n |-> [j \in 1..NPost |-> ((i + j + sol.seed) % (MaxW + 1)) + sol.lo]]

SolverWI(sol, n) ==
    [i \in 1..n |-> [j \in 1..NPost |-> ((2 * i + j + sol.seed) % (MaxW + 1)) + sol.lo]]

Neg(M) == [i \in 1..Len(M) |-> [j \in 1..Len(M[i]) |-> 0 - M[i][j]]]

\* a slip in line 200: the inhibitory matrix stored as the solver returned it
StoreWeightsUnnegated(bc, WE, WI, dmap, nmap) ==
    [weights |-> [Excitatory |-> SomeW(WE), Inhibitory |-> SomeW(WI)],
     pre_idx_dim_map |-> dmap,
     pre_idx_neurons_map |-> nmap]

\* lines 199-202
StoreWeights(bc, WE, WI, dmap, nmap) ==
    [weights |-> [Excitatory |-> SomeW(WE), Inhibitory |-> SomeW(Neg(WI))],
     pre_idx_dim_map |-> dmap,
     pre_idx_neurons_map |-> nmap]

(***************************************************************************)
(* Lines 121-202: the build branch after the empty BuiltConnection bc was  *)
(* put into model.params.  at names the statement that raised.             *)
(***************************************************************************)
BuildOutcome(err, at, called, bc, ret) ==
    [err |-> err, at |-> at, solverCalled |-> called, bc |-> bc, ret |-> ret]

NoRet == [WE |-> <<>>, WI |-> <<>>]

BuildBody(c, bc, sol) ==
    LET n == SumNeurons(c.pre, Len(c.pre))
        ret == [WE |-> SolverWE(sol, n), WI |-> SolverWI(sol, n)]
    IN  IF CountCheckRaises(c)
        THEN BuildOutcome("BuildError", "count_check", FALSE, bc, NoRet)
        ELSE IF ConcatAxis1Raises(EvalPointsList(c))
        THEN BuildOutcome("ValueError", "concatenate", FALSE, bc, NoRet)
        ELSE IF ConcatAxis1Raises(ActivitiesList(c))
        THEN BuildOutcome("ValueError", "concatenate", FALSE, bc, NoRet)
        ELSE IF ~c.dense
        THEN BuildOutcome("BuildError", "transform", FALSE, bc, NoRet)
        ELSE IF sol.raises
        THEN BuildOutcome("SolverError", "solver", TRUE, bc, NoRet)
        ELSE BuildOutcome("none", "none", TRUE,
                          StoreWeights(bc, ret.WE, ret.WI,
                                       PreIdxDimMap(c), PreIdxNeuronsMap(c)),
                          ret)

(***************************************************************************)
(* Lines 206-213: the rows [n0, n1) of the cached matrix, transposed.      *)
(***************************************************************************)
Transpose(M, n0, n1) ==
    [j \in 1..NPost |-> [k \in 1..(n1 - n0) |-> M[n0 + k][j]]]

SliceBody(bc, pre_idx, syn) ==
    IF pre_idx > Len(bc.pre_idx_neurons_map)
    THEN [err |-> "IndexError", W |-> <<>>]
    ELSE IF bc.weights[syn].none
    THEN [err |-> "TypeError", W |-> <<>>]
    ELSE [err |-> "none",
          W |-> Transpose(bc.weights[syn].m,
                          bc.pre_idx_neurons_map[pre_idx][1],
                          bc.pre_idx_neurons_map[pre_idx][2])]

(***************************************************************************)
(* The connections a model may hold.                                       *)
(***************************************************************************)
PreLists == UNION {[1..k -> Ens] : k \in 1..MaxPre}

Conns == [pre : PreLists, eval_points : 0..MaxPts, dense : BOOLEAN]

NoResp ==
    [kind |-> "none", err |-> "none", at |-> "none", W |-> <<>>,
     pre_idx |-> 0, syn |-> "none", built |-> FALSE]

Raised(err, at, pre_idx, syn, built) ==
    [kind |-> "raise", err |-> err, at |-> at, W |-> <<>>,
     pre_idx |-> pre_idx, syn |-> syn, built |-> built]

Returned(W, pre_idx, syn, built) ==
    [kind |-> "ok", err |-> "none", at |-> "none", W |-> W,
     pre_idx |-> pre_idx, syn |-> syn, built |-> built]

NoSolverRet == [none |-> TRUE, WE |-> <<>>, WI |-> <<>>]

\* a slip in line 113: the cache asked for the SolverWrapper, which is never a key
InParamsKeyedBySolver(p) == FALSE

\* line 113: conn in model.params
InParams(p) == p # 0

InitConn ==
    /\ conn \in Conns
    /\ heap = <<>>
    /\ params = 0
    /\ solverCalls = 0
    /\ solverRet = NoSolverRet
    /\ firstReq = 0
    /\ resp = NoResp

\* the components a specification leaves alone
NoEval ==
    /\ epTree = <<>>
    /\ epN = -1
    /\ epRes = <<>>

NoLif ==
    /\ lifNrn = <<>>
    /\ lifCall = <<>>
    /\ lifRes = <<>>

NoMdl ==
    /\ mdlConns = <<>>
    /\ mdlParams = <<>>
    /\ operators = <<>>
    /\ mdlLog = <<>>

NoRef ==
    /\ refCfg = <<>>
    /\ refSim = <<>>
    /\ refTrace = <<>>
    /\ refSince = 0

NoSim ==
    /\ simCfg = <<>>
    /\ simRef = <<>>
    /\ simPy = <<>>
    /\ simCpp = <<>>
    /\ simOut = <<>>

Init ==
    /\ InitConn
    /\ thr = <<>>
    /\ NoEval
    /\ NoLif
    /\ NoSim
    /\ NoRef
    /\ NoMdl

(***************************************************************************)
(* build_solver, lines 107-213, as one synchronous call: the request of    *)
(* the SolverWrapper for pre entry pre_idx and synapse type syn.  An       *)
(* exception leaves the function where it is raised; nothing in the        *)
(* function removes the entry line 115 put into model.params.              *)
(***************************************************************************)
build_solver(pre_idx, syn, sol) ==
    LET hit == InParams(params)
        heap1 == IF hit THEN heap ELSE Append(heap, BuiltConnection)
        id == IF hit THEN params ELSE Len(heap1)
        out == BuildBody(conn, heap1[id], sol)
        heap2 == IF hit THEN heap1 ELSE [heap1 EXCEPT ![id] = out.bc]
        sl == SliceBody(heap2[id], pre_idx, syn)
    IN  /\ params' = id
        /\ heap' = heap2
        /\ firstReq' = IF hit THEN firstReq ELSE pre_idx
        /\ solverCalls' =
              IF ~hit /\ out.solverCalled THEN solverCalls + 1 ELSE solverCalls
        /\ solverRet' =
              IF ~hit /\ out.err = "none"
              THEN [none |-> FALSE, WE |-> out.ret.WE, WI |-> out.ret.WI]
              ELSE solverRet
        /\ resp' =
              IF ~hit /\ out.err # "none"
              THEN Raised(out.err, out.at, pre_idx, syn, TRUE)
              ELSE IF sl.err # "none"
              THEN Raised(sl.err, "slice", pre_idx, syn, ~hit)
              ELSE Returned(sl.W, pre_idx, syn, ~hit)
        /\ UNCHANGED <<conn, thr, nonConnVars>>

Next ==
    \E pre_idx \in 1..Len(conn.pre), syn \in Synapses, sol \in SolverBehaviours :
        build_solver(pre_idx, syn, sol)

Spec == Init /\ [][Next]_vars

(***************************************************************************)
(* build_solver called from several threads on one model.  Nothing in the  *)
(* function synchronises its callers, so a caller may be preempted between *)
(* any two statements; the steps below are cut at the test of line 113,    *)
(* the insertion of line 115, the build of lines 117-202, the lookup of    *)
(* line 204 and the slicing of lines 206-213.  built_connection is a local *)
(* of each caller: it names the object the caller created or looked up.    *)
(***************************************************************************)
Threads == 1..NumThreads

IdleThread ==
    [pc |-> "idle", pre_idx |-> 0, syn |-> "none", bc |-> 0,
     err |-> "none", W |-> <<>>]

InitConc ==
    /\ InitConn
    /\ thr = [t \in Threads |-> IdleThread]
    /\ NoEval
    /\ NoLif
    /\ NoSim
    /\ NoRef
    /\ NoMdl

\* line 113
CCheck(t, pre_idx, syn) ==
    /\ thr[t].pc \in {"idle", "done"}
    /\ thr' = [thr EXCEPT ![t] =
                 [pc |-> IF InParams(params) THEN "lookup" ELSE "insert",
                  pre_idx |-> pre_idx, syn |-> syn, bc |-> 0,
                  err |-> "none", W |-> <<>>]]
    /\ UNCHANGED <<conn, heap, params, solverCalls, solverRet, firstReq, resp, nonConnVars>>

\* line 115
CInsert(t) ==
    /\ thr[t].pc = "insert"
    /\ heap' = Append(heap, BuiltConnection)
    /\ params' = Len(heap) + 1
    /\ thr' = [thr EXCEPT ![t].pc = "build", ![t].bc = Len(heap) + 1]
    /\ UNCHANGED <<conn, solverCalls, solverRet, firstReq, resp, nonConnVars>>

\* lines 117-202
CBuild(t, sol) ==
    /\ thr[t].pc = "build"
    /\ LET out == BuildBody(conn, heap[thr[t].bc], sol)
       IN  /\ heap' = [heap EXCEPT ![thr[t].bc] = out.bc]
           /\ solverCalls' =
                 IF out.solverCalled THEN solverCalls + 1 ELSE solverCalls
           /\ thr' = [thr EXCEPT
                        ![t].pc = IF out.err = "none" THEN "slice" ELSE "done",
                        ![t].err = out.err]
    /\ UNCHANGED <<conn, params, solverRet, firstReq, resp, nonConnVars>>

\* line 204
CLookup(t) ==
    /\ thr[t].pc = "lookup"
    /\ thr' = [thr EXCEPT ![t].pc = "slice", ![t].bc = params]
    /\ UNCHANGED <<conn, heap, params, solverCalls, solverRet, firstReq, resp, nonConnVars>>

\* lines 206-213
CSlice(t) ==
    /\ thr[t].pc = "slice"
    /\ LET sl == SliceBody(heap[thr[t].bc], thr[t].pre_idx, thr[t].syn)
       IN  thr' = [thr EXCEPT ![t].pc = "done", ![t].err = sl.err, ![t].W = sl.W]
    /\ UNCHANGED <<conn, heap, params, solverCalls, solverRet, firstReq, resp, nonConnVars>>

NextConc ==
    \/ \E t \in Threads, pre_idx \in 1..Len(conn.pre), syn \in Synapses :
          CCheck(t, pre_idx, syn)
    \/ \E t \in Threads : CInsert(t)
    \/ \E t \in Threads, sol \in SolverBehaviours : CBuild(t, sol)
    \/ \E t \in Threads : CLookup(t)
    \/ \E t \in Threads : CSlice(t)

SpecConc == InitConc /\ [][NextConc]_vars

(***************************************************************************)
(* get_multi_ensemble_eval_points, lines 33-90.  A MultiEnsemble is a tree *)
(* of NONE, STACK and JOIN nodes; its dimensions attribute is the sum of   *)
(* the children's for STACK and the shared dimensionality for JOIN.  The   *)
(* rows drawn by choice are random; the model keeps the shape of every     *)
(* array and, for the array a STACK fills, which columns each child wrote. *)
(***************************************************************************)
Leaf(e) == [operator |-> "NONE", ens |-> e, objs |-> <<>>]

Node(op, objs) == [operator |-> op, ens |-> 0, objs |-> objs]

RECURSIVE Dimensions(_)
Dimensions(m) ==
    IF m.operator = "NONE" THEN EnsDims(m.ens)
    ELSE IF m.operator = "JOIN" THEN Dimensions(m.objs[1])
    ELSE LET RECURSIVE Sum(_)
             Sum(k) == IF k = 0 THEN 0 ELSE Sum(k - 1) + Dimensions(m.objs[k])
         IN  Sum(Len(m.objs))

\* a JOIN whose children disagree on dimensions is refused at construction
RECURSIVE WellFormed(_)
WellFormed(m) ==
    \/ m.operator = "NONE"
    \/ /\ Len(m.objs) >= 1
       /\ \A i \in 1..Len(m.objs) : WellFormed(m.objs[i])
       /\ m.operator = "JOIN" =>
             \A i \in 1..Len(m.objs) :
                 Dimensions(m.objs[i]) = Dimensions(m.objs[1])

Operators == {"STACK", "JOIN"}

\* the trees of one level over k base ensembles
Level1(k) ==
    {m \in {Node(op, objs) : op \in Operators,
                             objs \in [1..k -> {Leaf(e) : e \in Ens}]} :
        WellFormed(m)}

\* the children a node may have that hold exactly k base ensembles
Items(k) == IF k = 1 THEN {Leaf(e) : e \in Ens} \cup Level1(1) ELSE Level1(k)

\* the child lists holding at most b base ensembles
Forest[b \in 0..MaxLeaves] ==
    IF b = 0 THEN {<<>>}
    ELSE {<<>>} \cup
         UNION {{<<t>> \o f : t \in Items(k), f \in Forest[b - k]} : k \in 1..b}

Trees ==
    {Leaf(e) : e \in Ens} \cup
    {m \in {Node(op, objs) : op \in Operators,
                             objs \in Forest[MaxLeaves] \ {<<>>}} :
        WellFormed(m)}

NoneCount == -1

SampleCounts == {NoneCount} \cup 1..MaxN

Arr(r, c) == [err |-> "none", rows |-> r, cols |-> c, ranges |-> <<>>, writes |-> <<>>]

ArrErr(e) == [err |-> e, rows |-> 0, cols |-> 0, ranges |-> <<>>, writes |-> <<>>]

\* a slip in choice: the rows of A returned whatever n is
ChoiceIgnoringN(A, n) == A

\* choice(A, n), lines 38-39: A[rng.randint(0, A.shape[0], n)]
Choice(A, n) ==
    IF A.rows = 0 \/ n < 0 THEN ArrErr("ValueError") ELSE Arr(n, A.cols)

\* numpy assignment a[...] = b: b must have the shape of the target or
\* extent 1 along an axis where it differs
Assignable(srcRows, srcCols, dstRows, dstCols) ==
    /\ srcRows = dstRows \/ srcRows = 1
    /\ srcCols = dstCols \/ srcCols = 1

Min(a, b) == IF a < b THEN a ELSE b

MaxRows(per) ==
    CHOOSE r \in {per[i].rows : i \in 1..Len(per)} :
        \A i \in 1..Len(per) : per[i].rows <= r

\* np.concatenate(pnts_per_obj, axis=0), line 90
ConcatAxis0(per) ==
    IF \E i \in 1..Len(per) : per[i].cols # per[1].cols
    THEN ArrErr("ValueError")
    ELSE LET RECURSIVE Sum(_)
             Sum(k) == IF k = 0 THEN 0 ELSE Sum(k - 1) + per[k].rows
         IN  Arr(Sum(Len(per)), per[1].cols)

\* a slip in line 85: the column offset is not advanced
NextOffsetStuck(d, n_dims) == d

\* line 85: d += n_dims
NextOffset(d, n_dims) == d + n_dims

\* lines 71-85, from child i on: pnts is the array of line 69, d the offset
RECURSIVE StackLoop(_, _, _, _, _)
StackLoop(per, i, d, n_eval_points, pnts) ==
    IF i > Len(per) THEN pnts
    ELSE
    LET p == per[i]
        n_pnts == p.rows
        n_dims == p.cols
        lo == Min(d, pnts.cols)
        hi == Min(d + n_dims, pnts.cols)
        fill == Choice(p, n_eval_points - n_pnts)
        draw == Choice(p, n_eval_points)
        ok == IF n_eval_points >= pnts.rows
              THEN /\ Assignable(n_pnts, n_dims, Min(n_pnts, pnts.rows), hi - lo)
                   /\ fill.err = "none"
                   /\ Assignable(fill.rows, fill.cols,
                                 pnts.rows - Min(n_pnts, pnts.rows), hi - lo)
              ELSE /\ draw.err = "none"
                   /\ Assignable(draw.rows, draw.cols, pnts.rows, hi - lo)
        written == [pnts EXCEPT
                      !.ranges = Append(@, <<d, d + n_dims>>),
                      !.writes = [j \in 1..pnts.cols |->
                                    IF lo < j /\ j <= hi THEN @[j] + 1 ELSE @[j]]]
    IN  IF ok
        THEN StackLoop(per, i + 1, NextOffset(d, n_dims), n_eval_points, written)
        ELSE ArrErr("ValueError")

RECURSIVE get_multi_ensemble_eval_points(_, _)
get_multi_ensemble_eval_points(mens, n) ==
    IF mens.operator = "NONE"
    THEN LET pnts == Arr(EnsPts(mens.ens), EnsDims(mens.ens))
         IN  IF n = NoneCount THEN pnts ELSE Choice(pnts, n)
    ELSE
    LET per == [i \in 1..Len(mens.objs) |->
                   get_multi_ensemble_eval_points(mens.objs[i], n)]
    IN  IF \E i \in 1..Len(per) : per[i].err # "none"
        THEN ArrErr((CHOOSE i \in 1..Len(per) : per[i].err # "none").err)
        ELSE
        LET max_n_pnts == MaxRows(per)
            n_eval_points == IF n = NoneCount THEN max_n_pnts ELSE n
            empty == [Arr(max_n_pnts, Dimensions(mens)) EXCEPT
                        !.writes = [j \in 1..Dimensions(mens) |-> 0]]
        IN  IF mens.operator = "STACK"
            THEN StackLoop(per, 1, 0, n_eval_points, empty)
            ELSE LET all == ConcatAxis0(per)
                 IN  IF all.err # "none" THEN all ELSE Choice(all, n_eval_points)

NotCalled == [called |-> FALSE, res |-> ArrErr("none")]

InitEval ==
    /\ epTree \in Trees
    /\ epN \in SampleCounts
    /\ epRes = NotCalled

NoConn ==
    /\ conn = <<>>
    /\ heap = <<>>
    /\ params = 0
    /\ solverCalls = 0
    /\ solverRet = NoSolverRet
    /\ firstReq = 0
    /\ resp = NoResp
    /\ thr = <<>>

InitEvalSpec ==
    /\ InitEval
    /\ NoConn
    /\ NoLif
    /\ NoSim
    /\ NoRef
    /\ NoMdl

EvalPoints ==
    /\ ~epRes.called
    /\ epRes' = [called |-> TRUE,
                 res |-> get_multi_ensemble_eval_points(epTree, epN)]
    /\ UNCHANGED <<epTree, epN, connVars, lifVars, simVars, refVars, mdlVars>>

NextEval == EvalPoints

SpecEval == InitEvalSpec /\ [][NextEval]_vars

(***************************************************************************)
(* LIF.gain_bias and LIF.max_rates_intercepts, neurons.py lines 113-181.   *)
(* Times are in milliseconds, rates in Hz, voltages in mV, conductances in *)
(* nS and currents in pA; a quotient is kept as numerator and denominator. *)
(* lif_utils.lif_rate and lif_rate_inv are outside the repository files    *)
(* read here: a call that reaches them is recorded as having returned.     *)
(***************************************************************************)
Nrns ==
    [tau_ref : 0..MaxTau, tau_spike : 0..MaxTau,
     v_th : {-50}, E_rev_leak : {-65}, g_leak_som : {50}]

RateVals == {200, 250, 251, 333, 334, 500, 501, 1000, 1001}

InterceptVals == {0, 1}

GainVals == {0, 250}

BiasVals == {500, 750}

Arrays(S) == UNION {[1..k -> S] : k \in 1..MaxArr}

\* lines 113-118
threshold_current(nrn) == (nrn.v_th - nrn.E_rev_leak) * nrn.g_leak_som

\* a slip in line 125: the spike period left out of the refractory time
lif_parameters_without_spike(nrn) ==
    [tau_ref |-> nrn.tau_ref, i_th |-> threshold_current(nrn)]

\* _lif_parameters, lines 120-128 (tau_rc is not read by the callers below)
lif_parameters(nrn) ==
    [tau_ref |-> nrn.tau_spike + nrn.tau_ref, i_th |-> threshold_current(nrn)]

\* line 152: 1. / tau_ref if tau_ref > 0. else np.inf, in Hz
InvTauRef(tau_ref) ==
    IF tau_ref > 0
    THEN [inf |-> FALSE, num |-> 1000, den |-> tau_ref]
    ELSE [inf |-> TRUE, num |-> 0, den |-> 1]

\* line 153: max_rates > inv_tau_ref, elementwise
Greater(rate, q) == ~q.inf /\ rate * q.den > q.num

\* the exception classes of nengo.exceptions and the builtins, with bases
ExcBases(e) ==
    CASE e = "ValidationError" ->
             {"ValidationError", "NengoException", "ValueError", "Exception"}
      [] e = "BuildError" ->
             {"BuildError", "NengoException", "ValueError", "Exception"}
      [] e = "NameError" -> {"NameError", "Exception"}
      [] OTHER -> {}

IsInstance(e, cls) == cls \in ExcBases(e)

LifResult(op, err, warned, returned, value) ==
    [op |-> op, err |-> err, warned |-> warned, returned |-> returned,
     value |-> value]

\* lines 144-168
gain_bias(nrn, max_rates, intercepts) ==
    LET inv_tau_ref == InvTauRef(lif_parameters(nrn).tau_ref)
    IN  IF \E i \in 1..Len(max_rates) : Greater(max_rates[i], inv_tau_ref)
        THEN LifResult("gain_bias", "ValidationError", FALSE, FALSE, <<>>)
        ELSE LifResult("gain_bias", "none", FALSE, TRUE, <<>>)

\* the names bound in the namespace of neurons.py: its imports (lines 17-24)
\* and its classes; the builtins hold no name warnings
ModuleNames ==
    {"np", "ValidationError", "NeuronType", "IntParam", "NumberParam",
     "Excitatory", "Inhibitory", "lif_utils",
     "multi_compartment_lif_parameters", "MultiChannelNeuronType", "LIF",
     "TwoCompLIF"}

\* line 176: (self.threshold_current() - bias) / gain on numpy arrays; a
\* division by zero yields inf or nan, not an exception
Intercepts(nrn, gain, bias) ==
    [i \in 1..Len(gain) |->
        [finite |-> gain[i] # 0,
         num |-> threshold_current(nrn) - bias[i],
         den |-> gain[i]]]

\* lines 170-181
max_rates_intercepts(nrn, gain, bias) ==
    LET intercepts == Intercepts(nrn, gain, bias)
    IN  IF \E i \in 1..Len(intercepts) : ~intercepts[i].finite
        THEN IF "warnings" \in ModuleNames
             THEN LifResult("max_rates_intercepts", "none", TRUE, TRUE, intercepts)
             ELSE LifResult("max_rates_intercepts", "NameError", FALSE, FALSE, <<>>)
        ELSE LifResult("max_rates_intercepts", "none", FALSE, TRUE, intercepts)

\* the calls made: the helper and its two array arguments, of equal length
Calls ==
    UNION {[op : {"gain_bias"}, a : [1..k -> RateVals],
            b : [1..k -> InterceptVals]] : k \in 1..MaxArr}
    \cup
    UNION {[op : {"max_rates_intercepts"}, a : [1..k -> GainVals],
            b : [1..k -> BiasVals]] : k \in 1..MaxArr}

InitLif ==
    /\ lifNrn \in Nrns
    /\ lifCall \in Calls
    /\ lifRes = LifResult("none", "none", FALSE, FALSE, <<>>)

InitLifSpec ==
    /\ InitLif
    /\ NoConn
    /\ NoEval
    /\ NoSim
    /\ NoRef
    /\ NoMdl

GainBias ==
    /\ lifRes.op = "none"
    /\ lifCall.op = "gain_bias"
    /\ lifRes' = gain_bias(lifNrn, lifCall.a, lifCall.b)
    /\ UNCHANGED <<lifNrn, lifCall, connVars, evalVars, simVars, refVars, mdlVars>>

MaxRatesIntercepts ==
    /\ lifRes.op = "none"
    /\ lifCall.op = "max_rates_intercepts"
    /\ lifRes' = max_rates_intercepts(lifNrn, lifCall.a, lifCall.b)
    /\ UNCHANGED <<lifNrn, lifCall, connVars, evalVars, simVars, refVars, mdlVars>>

NextLif ==
    \/ GainBias
    \/ MaxRatesIntercepts

SpecLif == InitLifSpec /\ [][NextLif]_vars

(***************************************************************************)
(* The two-compartment LIF integrators, tests/test_neurons.py.             *)
(*                                                                         *)
(* Fixed-point model of the floating-point code: voltages are whole mV,    *)
(* conductances multiples of 10 nS, and time is counted in substeps, so    *)
(* dt / ss = 1, dt = ss, tau_spike = dt and tau_ref = 2 dt (the defaults   *)
(* tau_spike = 1 ms, tau_ref = 2 ms at the test's dt = 1 ms).  The         *)
(* capacitances are scaled so that one substep moves a voltage by whole    *)
(* millivolts; a quotient is rounded down.                                 *)
(***************************************************************************)
\* TwoCompLIF.__init__, neurons.py lines 240-271, with its default voltages
TwoCompLIF(C_som, C_den, g_leak_som, g_leak_den) ==
    [C_som |-> C_som, C_den |-> C_den,
     g_leak_som |-> g_leak_som, g_leak_den |-> g_leak_den, g_couple |-> 5,
     E_rev_leak |-> -65, E_rev_exc |-> 20, E_rev_inh |-> -75,
     tau_ref |-> 2 * Subsample, tau_spike |-> Subsample,
     v_th |-> -50, v_reset |-> -65, v_spike |-> 20,
     subsample |-> Subsample]

\* the neurons of test_two_comp_lif_simulators_default, _asym_membrane
\* (C_den a quarter of C_som) and _asym_leak (g_leak_den a fifth of g_leak_som)
TestNeurons ==
    {TwoCompLIF(40, 40, 5, 5), TwoCompLIF(80, 20, 5, 5), TwoCompLIF(40, 40, 10, 2)}

\* the conductances x_exc[i], x_inh[i] of one step
GEVals == {0, 10}

GIVals == {0, 5}

SimState(v_som, v_den, tref, out) ==
    [v_som |-> v_som, v_den |-> v_den, tref |-> tref, out |-> out]

\* a quotient of the floating-point code, rounded down
Quot(a, b) == a \div b

\* lines 34-36
d_v_som(nrn, st) ==
    (nrn.E_rev_leak - st.v_som) * nrn.g_leak_som +
    (st.v_den - st.v_som) * nrn.g_couple

\* lines 37-41
d_v_den(nrn, st, gE, gI) ==
    (nrn.E_rev_leak - st.v_den) * nrn.g_leak_den +
    (nrn.E_rev_exc - st.v_den) * gE +
    (nrn.E_rev_inh - st.v_den) * gI +
    (st.v_som - st.v_den) * nrn.g_couple

\* a slip in line 51: the spike period left out of the refractory timer
RefractoryTimeWithoutSpike(nrn) == nrn.tau_ref

\* line 51: tref = nrn.tau_ref + nrn.tau_spike
RefractoryTime(nrn) == nrn.tau_ref + nrn.tau_spike

\* lines 43-44: the forward-Euler update of both voltages; h is dt / ss
RefIntegrated(nrn, st, gE, gI, h) ==
    [st EXCEPT !.v_som = @ + Quot(h * d_v_som(nrn, st), nrn.C_som),
               !.v_den = @ + Quot(h * d_v_den(nrn, st, gE, gI), nrn.C_den)]

\* a slip in line 48: the soma put to v_reset for the whole refractory time
ClampVoltageAlwaysReset(nrn, tref) == nrn.v_reset

\* line 48: nrn.v_spike if tref > nrn.tau_ref else nrn.v_reset
ClampVoltage(nrn, tref) ==
    IF tref > nrn.tau_ref THEN nrn.v_spike ELSE nrn.v_reset

\* lines 46-48
RefClamped(nrn, st, h) ==
    IF st.tref > 0
    THEN [st EXCEPT !.tref = @ - h, !.v_som = ClampVoltage(nrn, st.tref - h)]
    ELSE st

\* a slip in line 50: the refractory timer not consulted
RefCrossesIgnoringTimer(nrn, st) == st.v_som > nrn.v_th

\* line 50: v_som > nrn.v_th and tref <= 0.
RefCrosses(nrn, st) == st.v_som > nrn.v_th /\ st.tref <= 0

\* a slip in line 52: the spike voltage taken whatever tau_spike is
SpikeVoltageAlwaysSpike(nrn) == nrn.v_spike

\* line 52: nrn.v_spike if nrn.tau_spike > 0. else nrn.v_reset
SpikeVoltage(nrn) == IF nrn.tau_spike > 0 THEN nrn.v_spike ELSE nrn.v_reset

\* lines 50-53; spike is 1 / dt
RefSpike(nrn, st, spike) ==
    IF RefCrosses(nrn, st)
    THEN [st EXCEPT !.tref = RefractoryTime(nrn),
                    !.v_som = SpikeVoltage(nrn),
                    !.out = spike]
    ELSE st

\* lines 34-53: one pass of the loop body
RefSubstep(nrn, st, gE, gI, h, spike) ==
    RefSpike(nrn, RefClamped(nrn, RefIntegrated(nrn, st, gE, gI, h), h), spike)

RECURSIVE RefLoop(_, _, _, _, _, _, _)
RefLoop(nrn, st, gE, gI, h, spike, s) ==
    IF s = 0 THEN st
    ELSE RefLoop(nrn, RefSubstep(nrn, st, gE, gI, h, spike), gE, gI, h, spike, s - 1)

NoSpike == [num |-> 0, den |-> 1]

\* 1. / self.dt
OneOver(dt) == [num |-> 1, den |-> dt]

\* ReferenceTwoCompLIFSimulator.__call__, lines 29-55, on out = np.zeros
ReferenceCall(nrn, dt, ss, st, gE, gI) ==
    RefLoop(nrn, [st EXCEPT !.out = NoSpike], gE, gI, dt \div ss, OneOver(dt), ss)

\* ReferenceTwoCompLIFSimulator.__init__, lines 24-27
ReferenceInit(nrn) == SimState(nrn.v_reset, nrn.v_reset, 0, NoSpike)

(***************************************************************************)
(* The compiled integrators (nengo_bio.internal.multi_compartment_lif_     *)
(* python and _cpp), after spec section 4.3: a state machine with the      *)
(* states Integrating (timer <= 0) and Refractory (timer > 0 at the start  *)
(* of the substep).                                                        *)
(***************************************************************************)
CompiledSubstep(nrn, st, gE, gI, h, spike) ==
    LET den == st.v_den + Quot(h * d_v_den(nrn, st, gE, gI), nrn.C_den)
        som == st.v_som + Quot(h * d_v_som(nrn, st), nrn.C_som)
    IN  IF st.tref <= 0
        THEN IF som > nrn.v_th
             THEN SimState(IF nrn.tau_spike > 0 THEN nrn.v_spike ELSE nrn.v_reset,
                           den, nrn.tau_spike + nrn.tau_ref, spike)
             ELSE SimState(som, den, st.tref, st.out)
        ELSE SimState(IF st.tref - h > nrn.tau_ref THEN nrn.v_spike ELSE nrn.v_reset,
                      den, st.tref - h, st.out)

RECURSIVE CompiledLoop(_, _, _, _, _, _, _)
CompiledLoop(nrn, st, gE, gI, h, spike, s) ==
    IF s = 0 THEN st
    ELSE CompiledLoop(nrn, CompiledSubstep(nrn, st, gE, gI, h, spike),
                      gE, gI, h, spike, s - 1)

\* step_math of a compiled simulator, on out = np.zeros
CompiledCall(nrn, dt, ss, st, gE, gI) ==
    CompiledLoop(nrn, [st EXCEPT !.out = NoSpike], gE, gI, dt \div ss, OneOver(dt), ss)

\* LIF._compile, neurons.py lines 195-208: the backend a compile call picks
Backend(force_python_sim, supports_cpp) ==
    IF force_python_sim \/ ~supports_cpp THEN "python" ELSE "cpp"

\* sim_class(n_neurons).step_math of either backend
StepMath(backend, nrn, dt, st, gE, gI) ==
    CompiledCall(nrn, dt, nrn.subsample, st, gE, gI)

\* do_test_neuron, lines 66-68
InitSim ==
    /\ simCfg \in [nrn : TestNeurons, dt : {Subsample}, supports_cpp : BOOLEAN]
    /\ simRef = ReferenceInit(simCfg.nrn)
    /\ simPy = ReferenceInit(simCfg.nrn)
    /\ simCpp = ReferenceInit(simCfg.nrn)
    /\ simOut = <<NoSpike, NoSpike, NoSpike>>

InitSimSpec ==
    /\ InitSim
    /\ NoConn
    /\ NoEval
    /\ NoLif
    /\ NoRef
    /\ NoMdl

\* do_test_neuron, lines 77-80: one pass of the loop with inputs gE, gI
SimStep(gE, gI) ==
    LET nrn == simCfg.nrn
        ref == ReferenceCall(nrn, simCfg.dt, nrn.subsample, simRef, gE, gI)
        py == StepMath(Backend(TRUE, simCfg.supports_cpp), nrn, simCfg.dt,
                       simPy, gE, gI)
        cpp == StepMath(Backend(FALSE, simCfg.supports_cpp), nrn, simCfg.dt,
                        simCpp, gE, gI)
    IN  /\ simRef' = ref
        /\ simPy' = py
        /\ simCpp' = cpp
        /\ simOut' = <<ref.out, py.out, cpp.out>>
        /\ UNCHANGED <<simCfg, connVars, evalVars, lifVars, refVars, mdlVars>>

NextSim == \E gE \in GEVals, gI \in GIVals : SimStep(gE, gI)

SpecSim == InitSimSpec /\ [][NextSim]_vars

(***************************************************************************)
(* The reference integrator run on its own, over the neuron types its      *)
(* constructor accepts: tau_ref and tau_spike are checked to be >= 0,      *)
(* v_reset is an unconstrained NumberParam (neurons.py lines 78-84).  A    *)
(* step of dt = k substep widths keeps the voltage moved per substep by    *)
(* scaling the capacitances with k.                                        *)
(***************************************************************************)
TauRefs == {0, 1, 2 * Subsample}

TauSpikes == {0, Subsample}

\* the default reset voltage, one just below and one above the threshold
VResets == {-65, -51, -45}

\* TwoCompLIF(tau_ref=r, tau_spike=p, v_reset=v)
RefNeurons ==
    {[TwoCompLIF(40, 40, 5, 5) EXCEPT !.tau_ref = r, !.tau_spike = p, !.v_reset = v] :
        r \in TauRefs, p \in TauSpikes, v \in VResets}

RefConfigs ==
    {[nrn |-> [n EXCEPT !.C_som = k * @, !.C_den = k * @], dt |-> k * Subsample] :
        n \in RefNeurons, k \in 1..2}

\* one pass of the loop of lines 33-53: the state it starts with (pre), the
\* state after lines 34-48 (mid), whether line 50 holds, the state it ends
\* with (post), and the substeps made since the last spike onset (gap)
RefPass(nrn, st, gE, gI, h, spike, since) ==
    LET mid == RefClamped(nrn, RefIntegrated(nrn, st, gE, gI, h), h)
    IN  [pre |-> st, gE |-> gE, gI |-> gI, mid |-> mid,
         fired |-> RefCrosses(nrn, mid),
         post |-> RefSubstep(nrn, st, gE, gI, h, spike),
         gap |-> since]

Min2(a, b) == IF a < b THEN a ELSE b

\* the largest gap between spike onsets that is told apart
SinceCap(nrn) == RefractoryTime(nrn) + 1

\* substeps made since the last spike onset, after the pass
SinceAfter(nrn, pass) ==
    IF pass.fired THEN 1 ELSE Min2(pass.gap + 1, SinceCap(nrn))

RECURSIVE RefPasses(_, _, _, _, _, _, _, _)
RefPasses(nrn, st, gE, gI, h, spike, since, s) ==
    IF s = 0 THEN <<>>
    ELSE LET pass == RefPass(nrn, st, gE, gI, h, spike, since)
         IN  <<pass>> \o RefPasses(nrn, pass.post, gE, gI, h, spike,
                                   SinceAfter(nrn, pass), s - 1)

\* ReferenceTwoCompLIFSimulator(nrn, dt=dt, ss=nrn.subsample), lines 24-27
InitRef ==
    /\ refCfg \in RefConfigs
    /\ refSim = ReferenceInit(refCfg.nrn)
    /\ refTrace = <<>>
    /\ refSince = SinceCap(refCfg.nrn)

InitRefSpec ==
    /\ InitRef
    /\ NoConn
    /\ NoEval
    /\ NoLif
    /\ NoSim
    /\ NoMdl

\* sim_ref(out, gE, gI) on out = np.zeros(1), lines 29-55
RefStep(gE, gI) ==
    LET nrn == refCfg.nrn
        passes == RefPasses(nrn, [refSim EXCEPT !.out = NoSpike], gE, gI,
                            refCfg.dt \div nrn.subsample, OneOver(refCfg.dt),
                            refSince, nrn.subsample)
    IN  /\ refSim' = ReferenceCall(nrn, refCfg.dt, nrn.subsample, refSim, gE, gI)
        /\ refTrace' = passes
        /\ refSince' = SinceAfter(nrn, passes[Len(passes)])
        /\ UNCHANGED <<refCfg, connVars, evalVars, lifVars, simVars, mdlVars>>

NextRef == \E gE \in GEVals, gI \in GIVals : RefStep(gE, gI)

SpecRef == InitRefSpec /\ [][NextRef]_vars

(***************************************************************************)
(* build_solver on a model with several connections: the bias current of   *)
(* the post population, connection.py lines 93-103, 117-119 and 186-189.   *)
(* An operator is a record of its class and the signals it reads and       *)
(* writes; a signal is named by its population and its key in model.sig.   *)
(***************************************************************************)
Posts == {"a", "b"}

Sig(post, key) == <<post, key>>

Op(kind, src, dst) == [kind |-> kind, src |-> src, dst |-> dst]

\* the operators the host build system made for one population: other
\* operators on its input signal and one Copy of its bias into its input
EnsembleOps(post) ==
    <<Op("DotInc", Sig(post, "encoded"), Sig(post, "in")),
      Op("Copy", Sig(post, "bias"), Sig(post, "out")),
      Op("Copy", Sig(post, "bias"), Sig(post, "in")),
      Op("SimNeurons", Sig(post, "in"), Sig(post, "out"))>>

HostOperators == EnsembleOps("a") \o EnsembleOps("b")

\* del model.operators[i]
Del(ops, i) == [j \in 1..(Len(ops) - 1) |-> IF j < i THEN ops[j] ELSE ops[j + 1]]

\* a slip in line 98: the destination of the Copy not compared
IsBiasCopyOfAnyTarget(op, post) ==
    op.kind = "Copy" /\ op.src = Sig(post, "bias")

\* lines 97-98
IsBiasCopy(op, post) ==
    op.kind = "Copy" /\ op.src = Sig(post, "bias") /\ op.dst = Sig(post, "in")

\* lines 93-103
remove_bias_current(ops, post) ==
    LET found == {i \in 1..Len(ops) : IsBiasCopy(ops[i], post)}
    IN  IF found # {}
        THEN LET i == CHOOSE i \in found : \A j \in found : i <= j
             IN  [ops |-> Append(Del(ops, i), Op("Reset", <<>>, Sig(post, "in"))),
                  ret |-> "True"]
        ELSE [ops |-> ops, ret |-> "False"]

\* lines 186-189: what the target currents are made of
TargetCurrents(c) == [encoded |-> TRUE, bias |-> c.decode_bias]

NoTargets == [encoded |-> FALSE, bias |-> FALSE]

\* the connections of the model: one pre entry, any target, either setting
MdlConnSet ==
    [conn : {c \in Conns : Len(c.pre) = 1 /\ c.pre[1] = 1 /\ c.eval_points = 0},
     post : Posts, decode_bias : BOOLEAN]

MdlSolvers == {sol \in SolverBehaviours : sol.seed = 0 /\ sol.lo = 0}

Absent == [present |-> FALSE, bc |-> BuiltConnection]

MdlLog(k, hit, removed, before, atSolve, called, targets, err) ==
    [k |-> k, hit |-> hit, removed |-> removed, before |-> before,
     atSolve |-> atSolve, solverCalled |-> called, targets |-> targets,
     err |-> err]

InitMdl ==
    /\ mdlConns \in [1..MaxConns -> MdlConnSet]
    /\ mdlParams = [k \in 1..MaxConns |-> Absent]
    /\ operators = HostOperators
    /\ mdlLog = MdlLog(0, FALSE, "not called", <<>>, <<>>, FALSE, NoTargets, "none")

InitMdlSpec ==
    /\ InitMdl
    /\ NoConn
    /\ NoEval
    /\ NoLif
    /\ NoSim
    /\ NoRef

\* build_solver, lines 107-213, for connection k of the model
build_solver_of(k, syn, sol) ==
    LET c == mdlConns[k]
        hit == mdlParams[k].present
        rb == IF ~hit /\ c.decode_bias
              THEN remove_bias_current(operators, c.post)
              ELSE [ops |-> operators, ret |-> "not called"]
        out == BuildBody(c.conn, BuiltConnection, sol)
        bc == IF hit THEN mdlParams[k].bc ELSE out.bc
        sl == SliceBody(bc, 1, syn)
        called == ~hit /\ out.solverCalled
    IN  /\ mdlParams' = [mdlParams EXCEPT ![k] = [present |-> TRUE, bc |-> bc]]
        /\ operators' = rb.ops
        /\ mdlLog' = MdlLog(k, hit, rb.ret, operators,
                            IF called THEN rb.ops ELSE <<>>, called,
                            IF called THEN TargetCurrents(c) ELSE NoTargets,
                            IF ~hit /\ out.err # "none" THEN out.err ELSE sl.err)
        /\ UNCHANGED <<mdlConns, connVars, evalVars, lifVars, simVars, refVars>>

NextMdl ==
    \E k \in 1..MaxConns, syn \in Synapses, sol \in MdlSolvers :
        build_solver_of(k, syn, sol)

SpecMdl == InitMdlSpec /\ [][NextMdl]_vars

(***************************************************************************)
(* Claims about build_solver and the BuiltConnection cache.                *)
(***************************************************************************)
SampleCountsDiffer(c) ==
    \E i, j \in 1..Len(c.pre) :
        EvalPointsList(c)[i].rows # EvalPointsList(c)[j].rows

Cached == IF params = 0 THEN BuiltConnection ELSE heap[params]

\* C1: a connection build is all-or-nothing with respect to the cache: after
\* a build_solver call that failed while building, model.params holds no
\* entry for the connection, and an entry that is present is never a
\* partially filled BuiltConnection (weights None, empty index maps).
C1_BuildIsAllOrNothing ==
    /\ (resp.kind = "raise" /\ resp.built) => ~InParams(params)
    /\ InParams(params) =>
          /\ ~Cached.weights["Excitatory"].none
          /\ ~Cached.weights["Inhibitory"].none
          /\ Cached.pre_idx_neurons_map # <<>>

\* C2: a build whose pre entries yield evaluation-point sets with different
\* row counts fails with a BuildError raised by the sample-count check,
\* before anything is concatenated and before the solver is invoked.
C2_CountMismatchIsBuildError ==
    (resp.built /\ SampleCountsDiffer(conn)) =>
        /\ resp.kind = "raise"
        /\ resp.err = "BuildError"
        /\ resp.at = "count_check"
        /\ solverCalls = 0

\* The rows [n0, n1) of matrix M, one column of the answer per row.
IsRowsOf(W, M, n0, n1) ==
    /\ Len(W) = NPost
    /\ \A j \in 1..NPost :
          /\ Len(W[j]) = n1 - n0
          /\ \A k \in 1..(n1 - n0) : W[j][k] = M[n0 + k][j]

C3_State ==
    /\ solverCalls <= 1
    /\ Len(heap) <= 1
    /\ resp.kind = "ok" =>
          /\ InParams(params)
          /\ ~solverRet.none
          /\ Cached.weights["Excitatory"].m = solverRet.WE
          /\ Cached.weights["Inhibitory"].m = Neg(solverRet.WI)
          /\ Cached.pre_idx_neurons_map = PreIdxNeuronsMap(conn)
          /\ IsRowsOf(resp.W, Cached.weights[resp.syn].m,
                      SumNeurons(conn.pre, resp.pre_idx - 1),
                      SumNeurons(conn.pre, resp.pre_idx))

C3_Step ==
    /\ params # 0 =>
          /\ params' = params
          /\ solverCalls' = solverCalls
          /\ solverRet' = solverRet
    /\ (params # 0 /\ ~heap[params].weights["Excitatory"].none) =>
          heap' = heap

\* C3: over any sequence of weight requests for one connection the solver
\* is invoked at most once and one BuiltConnection is allocated; once the
\* connection is in model.params no request invokes the solver or replaces
\* the cached object, weights or index maps, and every request that returns
\* returns the rows [n0, n1) of the cached matrix for its pre entry.
C3_AtMostOneSolve == []C3_State /\ [][C3_Step]_vars

\* a request for another pre entry than the one that built, served from cache
C3_Witness ==
    /\ resp.kind = "ok"
    /\ ~resp.built
    /\ firstReq # 0
    /\ resp.pre_idx # firstReq
    /\ solverCalls = 1

NonNeg(M) == \A i \in 1..Len(M) : \A j \in 1..Len(M[i]) : M[i][j] >= 0

NonPos(M) == \A i \in 1..Len(M) : \A j \in 1..Len(M[i]) : M[i][j] <= 0

\* C8: when the solver honours its contract (both matrices nonnegative),
\* every cached BuiltConnection holds a nonnegative Excitatory and a
\* nonpositive Inhibitory matrix, and every returned weight block is
\* nonnegative for Excitatory and nonpositive for Inhibitory.
C8_WeightSigns ==
    (~solverRet.none /\ NonNeg(solverRet.WE) /\ NonNeg(solverRet.WI)) =>
        /\ \A id \in 1..Len(heap) :
              ~heap[id].weights["Excitatory"].none =>
                  /\ NonNeg(heap[id].weights["Excitatory"].m)
                  /\ NonPos(heap[id].weights["Inhibitory"].m)
        /\ (resp.kind = "ok" /\ resp.syn = "Excitatory") => NonNeg(resp.W)
        /\ (resp.kind = "ok" /\ resp.syn = "Inhibitory") => NonPos(resp.W)

\* an inhibitory block with a negative entry, from a solver within contract
C8_Witness ==
    /\ ~solverRet.none
    /\ NonNeg(solverRet.WE)
    /\ NonNeg(solverRet.WI)
    /\ resp.kind = "ok"
    /\ resp.syn = "Inhibitory"
    /\ \E j \in 1..Len(resp.W) : \E k \in 1..Len(resp.W[j]) : resp.W[j][k] < 0

FullyBuilt(bc) ==
    /\ ~bc.weights["Excitatory"].none
    /\ ~bc.weights["Inhibitory"].none
    /\ bc.pre_idx_neurons_map # <<>>

\* C4: when solve requests for one connection are interleaved, at most one
\* of them performs the build (one BuiltConnection is created, the solver
\* runs at most once) and no request reads the cache entry before the
\* weights and index maps are stored: the object a request slices is fully
\* built, and no request ends on weights that are None or an empty map.
C4_SingleBuildObserved ==
    /\ Len(heap) <= 1
    /\ solverCalls <= 1
    /\ \A t \in DOMAIN thr :
          /\ thr[t].pc = "slice" => FullyBuilt(heap[thr[t].bc])
          /\ thr[t].pc = "done" => thr[t].err \notin {"IndexError", "TypeError"}

(***************************************************************************)
(* Claims about get_multi_ensemble_eval_points.                            *)
(***************************************************************************)
ChildRows(i) == get_multi_ensemble_eval_points(epTree.objs[i], NoneCount).rows

\* C9: for every tree of NONE, STACK and JOIN nodes over base ensembles
\* with at least one evaluation point, a call with a sample count n returns
\* exactly n rows and does not raise; a call without a sample count on a
\* STACK or JOIN returns exactly the largest row count its children return.
C9_ExactRowCount ==
    epRes.called =>
        /\ epRes.res.err = "none"
        /\ epN # NoneCount => epRes.res.rows = epN
        /\ (epN = NoneCount /\ epTree.operator \in Operators) =>
              /\ \E i \in 1..Len(epTree.objs) : epRes.res.rows = ChildRows(i)
              /\ \A i \in 1..Len(epTree.objs) : epRes.res.rows >= ChildRows(i)

\* a nested tree whose children hold different numbers of points, asked for
\* fewer points than one of its children holds
C9_Witness ==
    /\ epRes.called
    /\ epTree.operator = "STACK"
    /\ \E i \in 1..Len(epTree.objs) : epTree.objs[i].operator = "JOIN"
    /\ \E i, j \in 1..Len(epTree.objs) : ChildRows(i) < ChildRows(j)
    /\ epN # NoneCount
    /\ \E i \in 1..Len(epTree.objs) : epN < ChildRows(i)
    /\ epRes.res.rows = epN

\* C10: the column ranges a STACK writes its children to are the prefix
\* sums of the children's dimensions in child order: they start at 0, each
\* starts where the one before ends, the last ends at the node's
\* dimensions, and every column of the result is written exactly once.
C10_StackColumnsTile ==
    (epRes.called /\ epTree.operator = "STACK") =>
        LET r == epRes.res.ranges
            k == Len(epTree.objs)
        IN  /\ epRes.res.err = "none"
            /\ epRes.res.cols = Dimensions(epTree)
            /\ Len(r) = k
            /\ r[1][1] = 0
            /\ \A i \in 1..k : r[i][2] - r[i][1] = Dimensions(epTree.objs[i])
            /\ \A i \in 1..(k - 1) : r[i + 1][1] = r[i][2]
            /\ r[k][2] = Dimensions(epTree)
            /\ \A j \in 1..Dimensions(epTree) : epRes.res.writes[j] = 1

\* a STACK of children of different widths, one of them nested
C10_Witness ==
    /\ epRes.called
    /\ epTree.operator = "STACK"
    /\ Len(epTree.objs) >= 2
    /\ \E i, j \in 1..Len(epTree.objs) :
          Dimensions(epTree.objs[i]) # Dimensions(epTree.objs[j])
    /\ \E i \in 1..Len(epTree.objs) : epTree.objs[i].operator = "STACK"
    /\ Len(epRes.res.ranges) = Len(epTree.objs)

(***************************************************************************)
(* Claims about the gain/bias helpers of LIF.                              *)
(***************************************************************************)
NonFiniteIntercept ==
    /\ lifRes.op = "max_rates_intercepts"
    /\ \E i \in 1..Len(lifCall.a) : lifCall.a[i] = 0

\* C6: max_rates_intercepts treats non-finite intercepts (a gain of zero)
\* as recoverable: it issues a warning, raises nothing and still returns
\* the pair (max_rates, intercepts) with the non-finite values in it.
C6_NonFiniteInterceptsWarn ==
    NonFiniteIntercept =>
        /\ lifRes.err = "none"
        /\ lifRes.warned
        /\ lifRes.returned
        /\ \E i \in 1..Len(lifRes.value) : ~lifRes.value[i].finite

\* some maximum rate lies above 1 / (tau_ref + tau_spike)
RateAboveAttainable ==
    /\ lifRes.op = "gain_bias"
    /\ \E i \in 1..Len(lifCall.a) :
          lifCall.a[i] * (lifNrn.tau_ref + lifNrn.tau_spike) > 1000

\* C7 as stated: a request with a maximum rate above 1/(tau_ref + tau_spike)
\* is rejected with a BuildError and returns no gain/bias; with
\* tau_ref + tau_spike = 0 no rate is rejected.
C7_RejectsWithBuildError ==
    /\ RateAboveAttainable =>
          /\ IsInstance(lifRes.err, "BuildError")
          /\ ~lifRes.returned
    /\ (lifRes.op = "gain_bias" /\ lifNrn.tau_ref + lifNrn.tau_spike = 0) =>
          /\ lifRes.err = "none"
          /\ lifRes.returned

\* C7 as amended: the rejection raises a ValidationError (which is not a
\* BuildError) and returns no gain/bias; with tau_ref + tau_spike = 0 no
\* rate is rejected.
C7_RejectsWithValidationError ==
    /\ RateAboveAttainable =>
          /\ IsInstance(lifRes.err, "ValidationError")
          /\ ~IsInstance(lifRes.err, "BuildError")
          /\ ~lifRes.returned
    /\ (lifRes.op = "gain_bias" /\ lifNrn.tau_ref + lifNrn.tau_spike = 0) =>
          /\ lifRes.err = "none"
          /\ lifRes.returned

\* a rate the refractory period alone would allow, rejected because of the
\* spike period
C7_Witness ==
    /\ RateAboveAttainable
    /\ \A i \in 1..Len(lifCall.a) : lifCall.a[i] * lifNrn.tau_ref <= 1000
    /\ lifRes.err = "ValidationError"

RefH == refCfg.dt \div refCfg.nrn.subsample

Passes == 1..Len(refTrace)

\* C11: when the somatic voltage exceeds the threshold at the end of a
\* substep while the refractory timer is <= 0, the output is set to 1/dt,
\* the timer to tau_spike + tau_ref and the somatic voltage to v_spike if
\* tau_spike > 0 and to v_reset otherwise; the output of the outer step is
\* 1/dt whichever and however many substeps crossed, and 0 if none did.
C11_SpikeOnset ==
    /\ \A i \in Passes :
          (refTrace[i].mid.v_som > refCfg.nrn.v_th /\ refTrace[i].mid.tref <= 0) =>
             /\ refTrace[i].post.out = OneOver(refCfg.dt)
             /\ refTrace[i].post.tref = refCfg.nrn.tau_spike + refCfg.nrn.tau_ref
             /\ refTrace[i].post.v_som =
                   IF refCfg.nrn.tau_spike > 0
                   THEN refCfg.nrn.v_spike ELSE refCfg.nrn.v_reset
    /\ refTrace # <<>> =>
          /\ refSim = refTrace[Len(refTrace)].post
          /\ refSim.out =
                IF \E i \in Passes :
                      /\ refTrace[i].mid.v_som > refCfg.nrn.v_th
                      /\ refTrace[i].mid.tref <= 0
                THEN OneOver(refCfg.dt) ELSE NoSpike

\* an outer step in which two substeps crossed the threshold, of a neuron
\* without a spike period and with a reset voltage below the threshold
C11_Witness ==
    /\ refCfg.nrn.tau_spike = 0
    /\ refCfg.nrn.v_reset < refCfg.nrn.v_th
    /\ \E i, j \in Passes :
          /\ i < j
          /\ refTrace[i].fired
          /\ refTrace[j].fired
    /\ refSim.out = OneOver(refCfg.dt)

\* the forward-Euler value of the dendritic voltage at the end of a pass
DenEuler(pass) ==
    pass.pre.v_den +
    Quot(RefH * d_v_den(refCfg.nrn, pass.pre, pass.gE, pass.gI), refCfg.nrn.C_den)

\* C12 as stated: in every substep that starts with the refractory timer
\* > 0 the timer is decremented by dt/substeps and the somatic voltage at
\* the end of the substep is v_spike if the remaining timer exceeds tau_ref
\* and v_reset otherwise, whatever the inputs; the dendritic voltage is
\* advanced by its forward-Euler update.
C12_RefractoryClamp ==
    \A i \in Passes :
        refTrace[i].pre.tref > 0 =>
           /\ refTrace[i].post.tref = refTrace[i].pre.tref - RefH
           /\ refTrace[i].post.v_som =
                 IF refTrace[i].post.tref > refCfg.nrn.tau_ref
                 THEN refCfg.nrn.v_spike ELSE refCfg.nrn.v_reset
           /\ refTrace[i].post.v_den = DenEuler(refTrace[i])

\* the timer ran out in this pass and the reset voltage is above threshold
Refires(pass) ==
    /\ pass.pre.tref - RefH <= 0
    /\ refCfg.nrn.v_reset > refCfg.nrn.v_th

\* C12 as amended: a substep that starts with the refractory timer > 0
\* decrements the timer by dt/substeps and clamps the somatic voltage to
\* v_spike if the remaining timer exceeds tau_ref and to v_reset otherwise,
\* whatever the inputs; these are the values at the end of the substep
\* unless the timer ran out and v_reset > v_th, when a spike starts in the
\* same substep (timer tau_ref + tau_spike, somatic voltage v_spike if
\* tau_spike > 0, else v_reset).  The dendritic voltage is advanced by its
\* forward-Euler update in either case.
C12_RefractoryClampUnlessRefire ==
    \A i \in Passes :
        refTrace[i].pre.tref > 0 =>
           /\ refTrace[i].mid.tref = refTrace[i].pre.tref - RefH
           /\ refTrace[i].mid.v_som =
                 IF refTrace[i].mid.tref > refCfg.nrn.tau_ref
                 THEN refCfg.nrn.v_spike ELSE refCfg.nrn.v_reset
           /\ IF Refires(refTrace[i])
              THEN /\ refTrace[i].post.tref =
                         refCfg.nrn.tau_ref + refCfg.nrn.tau_spike
                   /\ refTrace[i].post.v_som =
                         IF refCfg.nrn.tau_spike > 0
                         THEN refCfg.nrn.v_spike ELSE refCfg.nrn.v_reset
                   /\ refTrace[i].post.out = OneOver(refCfg.dt)
              ELSE /\ refTrace[i].post.tref = refTrace[i].mid.tref
                   /\ refTrace[i].post.v_som = refTrace[i].mid.v_som
                   /\ refTrace[i].post.out = refTrace[i].pre.out
           /\ refTrace[i].post.v_den = DenEuler(refTrace[i])

\* a step with a substep in the spike period (soma at v_spike), one in the
\* rest of the refractory time (soma at v_reset), the dendrite moving
C12_Witness ==
    /\ refCfg.nrn.v_reset < refCfg.nrn.v_th
    /\ \E i, j \in Passes :
          /\ refTrace[i].pre.tref > 0
          /\ refTrace[i].post.v_som = refCfg.nrn.v_spike
          /\ refTrace[j].pre.tref > 0
          /\ refTrace[j].post.v_som = refCfg.nrn.v_reset
          /\ refTrace[j].post.v_den # refTrace[j].pre.v_den

\* C14: no spike starts in a substep whose refractory timer is still > 0
\* after its decrement, two consecutive spike onsets lie at least
\* ceil((tau_ref + tau_spike) / (dt/substeps)) substeps apart, and the
\* refractory timer never exceeds tau_ref + tau_spike.
C14_RefractorySpacing ==
    /\ \A i \in Passes :
          refTrace[i].fired =>
             /\ refTrace[i].mid.tref <= 0
             /\ refTrace[i].gap * RefH >= refCfg.nrn.tau_ref + refCfg.nrn.tau_spike
    /\ \A i \in Passes :
          refTrace[i].post.out # refTrace[i].pre.out => refTrace[i].fired
    /\ refSim.tref <= refCfg.nrn.tau_ref + refCfg.nrn.tau_spike

\* a second spike onset exactly ceil((tau_ref + tau_spike) / h) substeps
\* after the first, where the quotient is not whole
C14_Witness ==
    /\ (refCfg.nrn.tau_ref + refCfg.nrn.tau_spike) % RefH # 0
    /\ \E i \in Passes :
          /\ refTrace[i].fired
          /\ refTrace[i].gap < SinceCap(refCfg.nrn)
          /\ (refTrace[i].gap - 1) * RefH < refCfg.nrn.tau_ref + refCfg.nrn.tau_spike

(***************************************************************************)
(* Claims about the bias current of the post population.                   *)
(***************************************************************************)
BiasCopies(ops, post) ==
    {i \in 1..Len(ops) : ops[i] = Op("Copy", Sig(post, "bias"), Sig(post, "in"))}

Resets(ops, post) ==
    {i \in 1..Len(ops) : ops[i] = Op("Reset", <<>>, Sig(post, "in"))}

\* the operators other than the bias Copies and the Resets of the inputs
Others(ops) ==
    SelectSeq(ops, LAMBDA op :
        \A p \in Posts :
            /\ op # Op("Copy", Sig(p, "bias"), Sig(p, "in"))
            /\ op # Op("Reset", <<>>, Sig(p, "in")))

\* decode_bias connections to post that have entered model.params
Decoding(post) ==
    {k \in 1..MaxConns :
        /\ mdlParams[k].present
        /\ mdlConns[k].decode_bias
        /\ mdlConns[k].post = post}

\* C13: the first build of a connection with decode_bias replaces the Copy
\* of the post population's bias into its input by one Reset of the input
\* before the solver is invoked; this happens at most once per population
\* (a later call finds no Copy, returns False and leaves the operators as
\* they are); a build without decode_bias leaves the operators as they are
\* and adds no bias to the target currents.
C13_BiasRemovedOnce ==
    /\ \A p \in Posts :
          /\ Cardinality(BiasCopies(operators, p)) = IF Decoding(p) = {} THEN 1 ELSE 0
          /\ Cardinality(Resets(operators, p)) = IF Decoding(p) = {} THEN 0 ELSE 1
    /\ Others(operators) = Others(HostOperators)
    /\ mdlLog.k # 0 =>
          LET c == mdlConns[mdlLog.k]
          IN  /\ (~mdlLog.hit /\ c.decode_bias) =>
                    /\ mdlLog.removed \in {"True", "False"}
                    /\ mdlLog.removed = "True" <=>
                          BiasCopies(mdlLog.before, c.post) # {}
                    /\ mdlLog.removed = "False" => operators = mdlLog.before
                    /\ mdlLog.solverCalled =>
                          /\ mdlLog.atSolve = operators
                          /\ BiasCopies(mdlLog.atSolve, c.post) = {}
                          /\ mdlLog.targets.bias
              /\ (mdlLog.hit \/ ~c.decode_bias) =>
                    /\ mdlLog.removed = "not called"
                    /\ operators = mdlLog.before
              /\ ~c.decode_bias => ~mdlLog.targets.bias

\* the second decode_bias connection to a population has just been built:
\* remove_bias_current returned False and the solver was invoked
C13_Witness ==
    /\ mdlLog.k # 0
    /\ mdlLog.removed = "False"
    /\ mdlLog.solverCalled
    /\ Cardinality(Decoding(mdlConns[mdlLog.k].post)) > 1
    /\ mdlLog.before = operators

=============================================================================
